---- MODULE Spec2Model ----
(***************************************************************************)
(* Model of pass 9 (provider compatibility) of the JSON Schema compiler,   *)
(* crates/jsonschema-llm-core/src/passes/p9_provider_compat.rs.            *)
(*                                                                         *)
(* A caller holds an input schema and a configuration and calls            *)
(* check_provider_compat once.  The call is followed statement by          *)
(* statement: the root check, one step per call of CompatVisitor::visit,   *)
(* and the return.  The recursion of visit is unfolded into `stack`, the   *)
(* pending calls in the order the code makes them: the call on top runs    *)
(* next, and the calls it makes on its children go on top of the ones its  *)
(* callers still have to make, which is the depth-first order of the code. *)
(*                                                                         *)
(* JSON values (serde_json::Value) are tagged records:                     *)
(*   Value::Null    [k |-> "Null"]                                         *)
(*   Value::Bool    [k |-> "Bool",   b |-> BOOLEAN]                        *)
(*   Value::Number  [k |-> "Number", n |-> Int]                            *)
(*   Value::String  [k |-> "String", s |-> STRING]                         *)
(*   Value::Array   [k |-> "Array",  a |-> sequence of values]             *)
(*   Value::Object  [k |-> "Object", o |-> function from member names to   *)
(*                                         values]                         *)
(* A path is the sequence of its JSON-Pointer segments, "#" first:         *)
(* "#/properties/c" is <<"#", "properties", "c">>.                         *)
(* The hint field of the advisories is a text formatted from the other     *)
(* fields of the same advisory and is left out.                            *)
(***************************************************************************)
EXTENDS Integers, Sequences, FiniteSets, TLC

VARIABLES
    schema,              \* the caller's input schema
    target,              \* config.target
    mode,                \* config.mode
    enum_default_first,  \* config.enum_default_first
    pc,                  \* "call", "visit" or "done"
    checked,             \* the local `schema`: what check_root_type returned
    errors,              \* the local `errors`
    transforms,          \* the local `transforms`
    max_depth_observed,  \* visitor.max_depth_observed
    stack,               \* the pending calls of visit, the next one first
    result,              \* the value the call returned, or its panic
    previous             \* the result of the caller's previous call
                         \* with the same options, if it made one

vars ==
    <<schema, target, mode, enum_default_first, pc, checked, errors,
      transforms, max_depth_observed, stack, result, previous>>

(* What a call leaves alone: the caller's configuration and its earlier    *)
(* result.                                                                 *)
config == <<target, mode, enum_default_first>>

----------------------------------------------------------------------------
(* Program constants *)

OPENAI_MAX_DEPTH == 5

HARD_RECURSION_LIMIT == 100

Targets == {"OpenaiStrict", "Claude", "Gemini"}

Modes == {"Strict", "Lenient"}

----------------------------------------------------------------------------
(* serde_json::Value *)

JNull == [k |-> "Null"]

JBool(b) == [k |-> "Bool", b |-> b]

JNum(n) == [k |-> "Number", n |-> n]

JStr(s) == [k |-> "String", s |-> s]

JArr(a) == [k |-> "Array", a |-> a]

JObj(o) == [k |-> "Object", o |-> o]

EmptyMap == <<>>

is_object(v) == v.k = "Object"

is_boolean(v) == v.k = "Bool"

is_array(v) == v.k = "Array"

is_string(v) == v.k = "String"

(* Value::get(key): a member of an object, None (absent) otherwise. *)
Has(v, key) == is_object(v) /\ key \in DOMAIN v.o

(* Map::get(key) on the map of an object. *)
MapHas(obj, key) == key \in DOMAIN obj

(* Iteration order of serde_json::Map (a BTreeMap: ascending keys), for   *)
(* the member names that occur in the maps the traversal iterates.         *)
KeyOrder == <<"a", "b", "c", "l", "result", "x">>

MapKeys(obj) == SelectSeq(KeyOrder, LAMBDA key : key \in DOMAIN obj)

(* usize::to_string for the array indices that occur. *)
IndexString == <<"0", "1", "2", "3">>

to_string(i) == IndexString[i + 1]

(* schema_utils::build_path: the parent path extended by the segments. *)
build_path(path, segments) == path \o segments

----------------------------------------------------------------------------
(* Check helpers *)

(* json_type_name that calls a number "integer". *)
json_type_name_integer(v) ==
    CASE v.k = "Null" -> "null"
      [] v.k = "Bool" -> "boolean"
      [] v.k = "Number" -> "integer"
      [] v.k = "String" -> "string"
      [] v.k = "Array" -> "array"
      [] v.k = "Object" -> "object"

(* json_type_name *)
json_type_name(v) ==
    CASE v.k = "Null" -> "null"
      [] v.k = "Bool" -> "boolean"
      [] v.k = "Number" -> "number"
      [] v.k = "String" -> "string"
      [] v.k = "Array" -> "array"
      [] v.k = "Object" -> "object"

(* Ascending order of the type names, as BTreeSet<&str> iterates them. *)
TypeNameOrder == <<"array", "boolean", "null", "number", "object", "string">>

MixedEnumTypes(path, types_found, tgt) ==
    [kind |-> "MixedEnumTypes", path |-> path, types_found |-> types_found,
     target |-> tgt]

UnconstrainedSchema(path, schema_kind, tgt) ==
    [kind |-> "UnconstrainedSchema", path |-> path,
     schema_kind |-> schema_kind, target |-> tgt]

RootTypeIncompatible(actual_type, tgt) ==
    [kind |-> "RootTypeIncompatible", actual_type |-> actual_type,
     target |-> tgt]

DepthBudgetExceeded(actual_depth, max_depth, tgt) ==
    [kind |-> "DepthBudgetExceeded", actual_depth |-> actual_depth,
     max_depth |-> max_depth, target |-> tgt]

RootObjectWrapper(path, wrapper_key) ==
    [kind |-> "RootObjectWrapper", path |-> path, wrapper_key |-> wrapper_key]

(* check_enum_homogeneity that tests `values.len() > 1`. *)
check_enum_homogeneity_by_len(values, path, tgt, errs) ==
    IF Len(values) > 1
    THEN Append(errs,
                MixedEnumTypes(path,
                    SelectSeq(TypeNameOrder,
                        LAMBDA t : \E i \in 1..Len(values) :
                                      json_type_name(values[i]) = t),
                    tgt))
    ELSE errs

(* check_enum_homogeneity: the errors list after the check. *)
check_enum_homogeneity(values, path, tgt, errs) ==
    IF Len(values) = 0 THEN errs
    ELSE LET types == {json_type_name(values[i]) : i \in 1..Len(values)}
         IN IF Cardinality(types) > 1
            THEN Append(errs,
                        MixedEnumTypes(path,
                            SelectSeq(TypeNameOrder, LAMBDA t : t \in types),
                            tgt))
            ELSE errs

CONTENT_KEYWORDS ==
    {"type", "properties", "items", "prefixItems", "enum", "const", "anyOf",
     "oneOf", "allOf", "$ref", "not", "if", "then", "else", "pattern",
     "minimum", "maximum", "minLength", "maxLength", "minItems", "maxItems",
     "format"}

(* is_unconstrained with the quick check only. *)
is_unconstrained_empty_only(obj) == DOMAIN obj = {}

(* is_unconstrained, on the map of an object schema *)
is_unconstrained(obj) ==
    IF DOMAIN obj = {} THEN TRUE
    ELSE ~(\E key \in DOMAIN obj : key \in CONTENT_KEYWORDS)

----------------------------------------------------------------------------
(* Check 1: root type enforcement *)

(* The wrapper with the original root under the key "x". *)
RootWrapper_other_key(sch) ==
    JObj([type |-> JStr("object"),
          properties |-> JObj([x |-> sch]),
          required |-> JArr(<<JStr("x")>>),
          additionalProperties |-> JBool(FALSE)])

(* The wrapper without its "type" member. *)
RootWrapper_untyped(sch) ==
    JObj([properties |-> JObj([result |-> sch]),
          required |-> JArr(<<JStr("result")>>),
          additionalProperties |-> JBool(FALSE)])

(* The wrapper schema `json!({...})` built around the original root. *)
RootWrapper(sch) ==
    JObj([type |-> JStr("object"),
          properties |-> JObj([result |-> sch]),
          required |-> JArr(<<JStr("result")>>),
          additionalProperties |-> JBool(FALSE)])

(* `schema.get("type").and_then(|v| v.as_str()).unwrap_or("")` *)
RootType(sch) ==
    IF Has(sch, "type") /\ is_string(sch.o["type"])
    THEN sch.o["type"].s
    ELSE ""

(* check_root_type without `errors.push`. *)
check_root_type_silent(sch, tgt, errs, trs) ==
    IF RootType(sch) = "object"
    THEN [schema |-> sch, errors |-> errs, transforms |-> trs]
    ELSE [schema |-> RootWrapper(sch),
          errors |-> errs,
          transforms |-> Append(trs,
                                RootObjectWrapper(<<"#">>, "result"))]

(* check_root_type that returns a root that is not an object as it is. *)
check_root_type_objects(sch, tgt, errs, trs) ==
    IF RootType(sch) = "object" \/ ~is_object(sch)
    THEN [schema |-> sch, errors |-> errs, transforms |-> trs]
    ELSE [schema |-> RootWrapper(sch),
          errors |-> Append(errs, RootTypeIncompatible("unspecified", tgt)),
          transforms |-> Append(trs,
                                RootObjectWrapper(<<"#">>, "result"))]

(* check_root_type without the early return for an object root. *)
check_root_type_always(sch, tgt, errs, trs) ==
    [schema |-> RootWrapper(sch),
     errors |-> Append(errs, RootTypeIncompatible("unspecified", tgt)),
     transforms |-> Append(trs, RootObjectWrapper(<<"#">>, "result"))]

(* check_root_type: the returned schema with the two lists as it leaves   *)
(* them.                                                                   *)
check_root_type(sch, tgt, errs, trs) ==
    LET root_type == RootType(sch)
        actual_type == IF root_type = "" THEN "unspecified" ELSE root_type
    IN IF root_type = "object"
       THEN [schema |-> sch, errors |-> errs, transforms |-> trs]
       ELSE [schema |-> RootWrapper(sch),
             errors |-> Append(errs, RootTypeIncompatible(actual_type, tgt)),
             transforms |-> Append(trs,
                                   RootObjectWrapper(<<"#">>, "result"))]

----------------------------------------------------------------------------
(* Checks 2-4: CompatVisitor *)

(* One call of visit: its arguments. *)
VisitCall(sch, path, depth) == [schema |-> sch, path |-> path, depth |-> depth]

(* The calls `self.visit(child, &child_path, depth + 1)` that visit makes  *)
(* on the children of an object node, in the order of its loops.           *)
MapChildren(obj, path, keyword, depth) ==
    IF MapHas(obj, keyword) /\ is_object(obj[keyword])
    THEN LET keys == MapKeys(obj[keyword].o)
         IN [i \in 1..Len(keys) |->
                VisitCall(obj[keyword].o[keys[i]],
                          build_path(path, <<keyword, keys[i]>>), depth)]
    ELSE <<>>

ArrayChildren(obj, path, keyword, depth) ==
    IF MapHas(obj, keyword) /\ is_array(obj[keyword])
    THEN [i \in 1..Len(obj[keyword].a) |->
            VisitCall(obj[keyword].a[i],
                      build_path(path, <<keyword, to_string(i - 1)>>),
                      depth)]
    ELSE <<>>

ItemsChild(obj, path, depth) ==
    IF MapHas(obj, "items")
       /\ (is_object(obj["items"]) \/ is_boolean(obj["items"]))
    THEN <<VisitCall(obj["items"], build_path(path, <<"items">>), depth)>>
    ELSE <<>>

(* additionalProperties visited when it is a boolean, too, like items. *)
AdditionalPropertiesChild_or_boolean(obj, path, depth) ==
    IF MapHas(obj, "additionalProperties")
       /\ (is_object(obj["additionalProperties"])
           \/ is_boolean(obj["additionalProperties"]))
    THEN <<VisitCall(obj["additionalProperties"],
                     build_path(path, <<"additionalProperties">>), depth)>>
    ELSE <<>>

(* `if ap.is_object()`: additionalProperties is visited when it is an      *)
(* object, never when it is a boolean.                                     *)
AdditionalPropertiesChild(obj, path, depth) ==
    IF MapHas(obj, "additionalProperties")
       /\ is_object(obj["additionalProperties"])
    THEN <<VisitCall(obj["additionalProperties"],
                     build_path(path, <<"additionalProperties">>), depth)>>
    ELSE <<>>

(* The calls in the order of the shared skeleton: additionalProperties     *)
(* before items.                                                           *)
VisitChildren_skeleton_order(obj, path, depth) ==
    MapChildren(obj, path, "properties", depth)
    \o AdditionalPropertiesChild(obj, path, depth)
    \o ItemsChild(obj, path, depth)
    \o ArrayChildren(obj, path, "prefixItems", depth)
    \o ArrayChildren(obj, path, "anyOf", depth)
    \o ArrayChildren(obj, path, "oneOf", depth)
    \o ArrayChildren(obj, path, "allOf", depth)
    \o MapChildren(obj, path, "$defs", depth)
    \o MapChildren(obj, path, "definitions", depth)

VisitChildren(obj, path, depth) ==
    MapChildren(obj, path, "properties", depth)
    \o ItemsChild(obj, path, depth)
    \o ArrayChildren(obj, path, "prefixItems", depth)
    \o AdditionalPropertiesChild(obj, path, depth)
    \o ArrayChildren(obj, path, "anyOf", depth)
    \o ArrayChildren(obj, path, "oneOf", depth)
    \o ArrayChildren(obj, path, "allOf", depth)
    \o MapChildren(obj, path, "$defs", depth)
    \o MapChildren(obj, path, "definitions", depth)

(* No recursion guard. *)
RecursionGuard_off(depth) == depth > HARD_RECURSION_LIMIT /\ FALSE

(* The recursion guard of visit: whether the call returns at once. *)
RecursionGuard(depth) == depth > HARD_RECURSION_LIMIT

(* The block with a `return` in it. *)
DepthBudgetStop_returns(depth) == depth > OPENAI_MAX_DEPTH

(* The body of `if depth > OPENAI_MAX_DEPTH { }`: whether visit returns   *)
(* there.  The block is empty, so it never does.                           *)
DepthBudgetStop(depth) == depth > OPENAI_MAX_DEPTH /\ FALSE

(* Check 3 (#95) of visit: the deepest level seen so far. *)
TrackDepth(observed, depth) == IF depth > observed THEN depth ELSE observed

(* Check 4 (#96) of visit: enum homogeneity of one object node. *)
EnumCheck(errs, obj, path, tgt) ==
    IF MapHas(obj, "enum") /\ is_array(obj["enum"])
    THEN check_enum_homogeneity(obj["enum"].a, path, tgt, errs)
    ELSE errs

(* Check 4 (#97) of visit: unconstrained sub-schema. *)
UnconstrainedCheck(errs, obj, path, tgt) ==
    IF path # <<"#">> /\ is_unconstrained(obj)
    THEN Append(errs, UnconstrainedSchema(path, "empty", tgt))
    ELSE errs

(* format!("boolean({})", schema) *)
BooleanKind(b) == IF b THEN "boolean(true)" ELSE "boolean(false)"

(* The None arm of `match schema.as_object()`: a boolean is flagged, any   *)
(* other non-object is left alone.                                         *)
NonObject(errs, sch, path, tgt) ==
    IF is_boolean(sch)
    THEN Append(errs, UnconstrainedSchema(path, BooleanKind(sch.b), tgt))
    ELSE errs

----------------------------------------------------------------------------
(* check_provider_compat *)

(* The match guard without `if config.mode == Mode::Strict`. *)
AuditActive_any_mode(tgt, md) == tgt = "OpenaiStrict"

(* The match guard of check_provider_compat. *)
AuditActive(tgt, md) == tgt = "OpenaiStrict" /\ md = "Strict"

(* A function that fails when it has findings. *)
ProviderCompatResult_or_error(sch, trs, errs) ==
    IF errs # <<>>
    THEN [outcome |-> "failed", errors |-> errs]
    ELSE [outcome |-> "returned", schema |-> sch, transforms |-> trs,
          errors |-> errs]

(* The value check_provider_compat returns: always a ProviderCompatResult, *)
(* never an error.                                                         *)
ProviderCompatResult(sch, trs, errs) ==
    [outcome |-> "returned", schema |-> sch, transforms |-> trs,
     errors |-> errs]

(* The budget test with `>=` for `>`. *)
ExceedsBudget_at_limit(observed) == observed >= OPENAI_MAX_DEPTH

(* `if max_depth_observed > OPENAI_MAX_DEPTH` *)
ExceedsBudget(observed) == observed > OPENAI_MAX_DEPTH

(* The aggregated DepthBudgetExceeded put in front of the list. *)
WithDepthError_first(errs, observed, tgt) ==
    IF ExceedsBudget(observed)
    THEN <<DepthBudgetExceeded(observed, OPENAI_MAX_DEPTH, tgt)>> \o errs
    ELSE errs

(* The errors list after the aggregated DepthBudgetExceeded, if any. *)
WithDepthError(errs, observed, tgt) ==
    IF ExceedsBudget(observed)
    THEN Append(errs, DepthBudgetExceeded(observed, OPENAI_MAX_DEPTH, tgt))
    ELSE errs

NoResult == [outcome |-> "none"]

(* First match arm, check 1: check_root_type, then the visitor is made    *)
(* and visit is called on the root.                                        *)
RootCheck ==
    /\ pc = "call"
    /\ AuditActive(target, mode)
    /\ LET r == check_root_type(schema, target, <<>>, <<>>)
       IN /\ checked' = r.schema
          /\ errors' = r.errors
          /\ transforms' = r.transforms
          /\ stack' = <<VisitCall(r.schema, <<"#">>, 0)>>
    /\ max_depth_observed' = 0
    /\ pc' = "visit"
    /\ UNCHANGED <<schema, config, previous, result>>

(* A call of visit that returns at the recursion guard. *)
VisitTooDeep ==
    /\ pc = "visit"
    /\ stack # <<>>
    /\ RecursionGuard(Head(stack).depth)
    /\ stack' = Tail(stack)
    /\ UNCHANGED <<schema, config, previous, pc, checked, errors,
                   transforms, max_depth_observed, result>>

(* A call of visit on a value that is not an object. *)
VisitNonObject ==
    /\ pc = "visit"
    /\ stack # <<>>
    /\ ~RecursionGuard(Head(stack).depth)
    /\ ~is_object(Head(stack).schema)
    /\ errors' = NonObject(errors, Head(stack).schema, Head(stack).path,
                           target)
    /\ stack' = Tail(stack)
    /\ UNCHANGED <<schema, config, previous, pc, checked, transforms,
                   max_depth_observed, result>>

(* A call of visit on an object: its checks, then its calls on the        *)
(* children.                                                               *)
VisitObject ==
    /\ pc = "visit"
    /\ stack # <<>>
    /\ ~RecursionGuard(Head(stack).depth)
    /\ is_object(Head(stack).schema)
    /\ LET call == Head(stack)
           obj == call.schema.o
       IN /\ max_depth_observed' = TrackDepth(max_depth_observed, call.depth)
          /\ IF DepthBudgetStop(call.depth)
             THEN /\ errors' = errors
                  /\ stack' = Tail(stack)
             ELSE /\ errors' =
                        UnconstrainedCheck(
                            EnumCheck(errors, obj, call.path, target),
                            obj, call.path, target)
                  /\ stack' = VisitChildren(obj, call.path, call.depth + 1)
                              \o Tail(stack)
    /\ UNCHANGED <<schema, config, previous, pc, checked, transforms,
                   result>>

(* visit has returned to check_provider_compat: the aggregated depth      *)
(* error, and the result.                                                  *)
Return ==
    /\ pc = "visit"
    /\ stack = <<>>
    /\ errors' = WithDepthError(errors, max_depth_observed, target)
    /\ result' = ProviderCompatResult(checked, transforms, errors')
    /\ pc' = "done"
    /\ UNCHANGED <<schema, config, previous, checked, transforms,
                   max_depth_observed, stack>>

(* Second match arm: passthrough. *)
Passthrough ==
    /\ pc = "call"
    /\ ~AuditActive(target, mode)
    /\ result' = ProviderCompatResult(schema, <<>>, <<>>)
    /\ pc' = "done"
    /\ UNCHANGED <<schema, config, previous, checked, errors,
                   transforms, max_depth_observed, stack>>

(* The caller calls again, on the schema the call returned and with the    *)
(* same options.                                                           *)
Reconvert ==
    /\ pc = "done"
    /\ previous = NoResult
    /\ result.outcome = "returned"
    /\ schema' = result.schema
    /\ previous' = result
    /\ pc' = "call"
    /\ checked' = JNull
    /\ errors' = <<>>
    /\ transforms' = <<>>
    /\ max_depth_observed' = 0
    /\ stack' = <<>>
    /\ result' = NoResult
    /\ UNCHANGED config

----------------------------------------------------------------------------
(* Pass 7, crates/jsonschema-llm-core/src/passes/p7_constraints.rs *)

(* A call that has panicked. *)
Panic(message) == [outcome |-> "panicked", message |-> message]

(* `todo!()` *)
todo == Panic("not yet implemented")

(* prune_constraints: it reads neither argument, its body is `todo!()`. *)
prune_constraints(sch, cfg) == todo

(* The caller calls prune_constraints. *)
PruneConstraints ==
    /\ pc = "call"
    /\ result' = prune_constraints(schema, config)
    /\ pc' = "done"
    /\ UNCHANGED <<schema, config, previous, checked, errors, transforms,
                   max_depth_observed, stack>>

----------------------------------------------------------------------------
(* Input schemas *)

(* Deepest chain of typed object levels put around a schema, besides the   *)
(* chains around the recursion guard.                                      *)
MaxNest == 6

(* Longest enum array enumerated in full. *)
MaxEnumLen == 2

TypeString == JObj("type" :> JStr("string"))

Empty == JObj(EmptyMap)

(* One value of each JSON type, and a second string and number. *)
EnumValues ==
    {JNull, JBool(TRUE), JNum(1), JNum(2), JStr("a"), JStr("b"),
     JArr(<<>>), Empty}

Enum(values) == JObj("enum" :> JArr(values))

EnumArrays == UNION {[1..n -> EnumValues] : n \in 0..MaxEnumLen}

(* The keywords a node may hold alone, with a value of the usual shape. *)
SchemaKeywords ==
    {"items", "additionalProperties", "contains", "not", "if", "then",
     "else", "propertyNames"}

MapKeywords ==
    {"properties", "patternProperties", "$defs", "definitions",
     "dependentSchemas"}

ArrayKeywords == {"prefixItems", "anyOf", "oneOf", "allOf"}

NumberKeywords ==
    {"minimum", "maximum", "minLength", "maxLength", "minItems", "maxItems",
     "multipleOf", "default"}

StringKeywords ==
    {"type", "$ref", "pattern", "format", "description", "title", "$schema",
     "const"}

AllKeywords ==
    SchemaKeywords \cup MapKeywords \cup ArrayKeywords \cup NumberKeywords
    \cup StringKeywords \cup {"enum", "required"}

(* The node {keyword: child} (a map or an array holds the one child). *)
Under(keyword, name, child) ==
    JObj(keyword :>
            CASE keyword \in MapKeywords -> JObj(name :> child)
              [] keyword \in ArrayKeywords -> JArr(<<child>>)
              [] OTHER -> child)

(* The node holding one keyword and nothing else. *)
OneKeyword(keyword) ==
    CASE keyword \in SchemaKeywords \cup MapKeywords \cup ArrayKeywords ->
            Under(keyword, "x", TypeString)
      [] keyword \in NumberKeywords -> JObj(keyword :> JNum(1))
      [] keyword \in StringKeywords -> JObj(keyword :> JStr("string"))
      [] keyword = "enum" -> Enum(<<JStr("a")>>)
      [] keyword = "required" -> JObj(keyword :> JArr(<<>>))

(* `node` with its "type" member set to ty. *)
WithType(node, ty) == JObj(("type" :> ty) @@ node.o)

(* {type: "object", properties: {l: inner}}, n levels of it: the schema   *)
(* the depth test builds.                                                  *)
RECURSIVE Nest(_, _)
Nest(n, inner) ==
    IF n = 0 THEN inner
    ELSE [k |-> "Object",
          o |-> [type |-> [k |-> "String", s |-> "object"],
                 properties |->
                    [k |-> "Object", o |-> [l |-> Nest(n - 1, inner)]]]]

(* One level and ten levels of {items: inner}. *)
Items(inner) == [k |-> "Object", o |-> [items |-> inner]]

Items10(inner) ==
    Items(Items(Items(Items(Items(Items(Items(Items(Items(Items(inner))))))))))

(* {items: inner}, n levels of it, built from the inside and ten levels   *)
(* at a time, as a caller's loop builds it from the innermost schema.      *)
RECURSIVE NestItems(_, _)
NestItems(n, inner) ==
    IF n = 0 THEN inner
    ELSE IF n < 10 THEN Items(NestItems(n - 1, inner))
    ELSE CHOOSE outer \in {Items10(built) :
                              built \in {NestItems(n - 10, inner)}} : TRUE

(* Nodes whose keys are all structural or metadata keys. *)
Sealed ==
    JObj(("additionalProperties" :> JBool(FALSE)) @@ ("required" :> JArr(<<>>)))

Metadata ==
    JObj(("additionalProperties" :> JBool(FALSE))
         @@ ("required" :> JArr(<<>>))
         @@ ("description" :> JStr("string"))
         @@ ("title" :> JStr("string"))
         @@ ("$schema" :> JStr("string")))

MixedEnum == Enum(<<JStr("a"), JNum(1)>>)

(* JSON values that are not schemas. *)
NonSchemas == {JNull, JNum(1), JStr("string"), JArr(<<>>)}

Leaves ==
    {OneKeyword(keyword) : keyword \in AllKeywords}
    \cup {Empty, Sealed, Metadata, JBool(TRUE), JBool(FALSE)}
    \cup {MixedEnum, Enum(<<>>), JObj("enum" :> JStr("a"))}
    \cup NonSchemas

(* The leaves put deep inside a schema. *)
DeepLeaves == {TypeString, Empty, MixedEnum, JBool(TRUE), JNull}

(* The positions a child is put under. *)
Positions == SchemaKeywords \cup MapKeywords \cup ArrayKeywords

(* The root "type" of an input: left as built, or set to a value. *)
RootTypeChoices ==
    {JNull, JStr("object"), JStr("array"), JStr("string"),
     JArr(<<JStr("object")>>)}

SetRootType(body, ty) ==
    IF is_object(body) /\ ty # JNull THEN WithType(body, ty) ELSE body

(* Roots: a leaf, alone or under one position, with each root type. *)
RootSchema(sch) ==
    \E leaf \in Leaves, ty \in RootTypeChoices :
        \/ sch = SetRootType(leaf, ty)
        \/ \E keyword \in Positions :
              sch = SetRootType(Under(keyword, "c", leaf), ty)

(* Structure: a leaf under one position, inside 1..MaxNest typed object    *)
(* levels; the root typed "object" or "array".                             *)
NestedSchema(sch) ==
    \E n \in 1..MaxNest, leaf \in DeepLeaves,
       ty \in {JStr("object"), JStr("array")} :
        \/ sch = SetRootType(Nest(n, leaf), ty)
        \/ \E keyword \in Positions :
              sch = SetRootType(Nest(n, Under(keyword, "c", leaf)), ty)

(* Enums: every enum array, as a property of the root and deep inside. *)
EnumSchema(sch) ==
    \E values \in EnumArrays :
        \/ sch = Under("properties", "c", Enum(values))
        \/ \E n \in {1, MaxNest} : sch = Nest(n, Enum(values))

(* Guard: chains that end around the recursion guard. *)
GuardNests ==
    {HARD_RECURSION_LIMIT - 1, HARD_RECURSION_LIMIT, HARD_RECURSION_LIMIT + 1}

GuardSchema(sch) ==
    \E n \in GuardNests, leaf \in DeepLeaves, ty \in {JNull, JStr("object")} :
        sch = SetRootType(NestItems(n, leaf), ty)

(* Siblings: an object with two properties, at the root and deep inside. *)
PairLeaves == DeepLeaves \cup {Nest(2, Empty)}

Pair(first, second) ==
    JObj(("type" :> JStr("object"))
         @@ ("properties" :> JObj(("a" :> first) @@ ("b" :> second))))

PairSchema(sch) ==
    \E first \in PairLeaves, second \in PairLeaves, n \in {0, MaxNest - 1},
       ty \in {JStr("object"), JStr("array")} :
        sch = SetRootType(Nest(n, Pair(first, second)), ty)

(* Crowded: a node that holds a child under every position at once, at    *)
(* the root, below an untyped root and deep inside.                        *)
Crowded(leaf) ==
    JObj(("type" :> JStr("object"))
         @@ [keyword \in Positions |-> Under(keyword, "c", leaf).o[keyword]])

CrowdedSchema(sch) ==
    \E leaf \in DeepLeaves :
        \/ sch = Crowded(leaf)
        \/ \E n \in {1, MaxNest} :
              \/ sch = Nest(n, Crowded(leaf))
              \/ sch = NestItems(n, Crowded(leaf))

----------------------------------------------------------------------------
(* The caller *)

Init ==
    /\ \/ RootSchema(schema)
       \/ NestedSchema(schema)
       \/ EnumSchema(schema)
       \/ GuardSchema(schema)
       \/ PairSchema(schema)
       \/ CrowdedSchema(schema)
    /\ target \in Targets
    /\ mode \in Modes
    /\ enum_default_first = TRUE
    /\ pc = "call"
    /\ checked = JNull
    /\ errors = <<>>
    /\ transforms = <<>>
    /\ max_depth_observed = 0
    /\ stack = <<>>
    /\ result = NoResult
    /\ previous = NoResult

Next ==
    \/ RootCheck
    \/ VisitTooDeep
    \/ VisitNonObject
    \/ VisitObject
    \/ Return
    \/ Passthrough

Spec == Init /\ [][Next]_vars

(* One call, then a second call on what the first returned. *)
NextAgain ==
    \/ RootCheck
    \/ VisitTooDeep
    \/ VisitNonObject
    \/ VisitObject
    \/ Return
    \/ Passthrough
    \/ Reconvert

SpecAgain == Init /\ [][NextAgain]_vars

----------------------------------------------------------------------------
(* The calls of prune_constraints *)

(* The nodes of the pass's tests. *)
MinMaxNode ==
    JObj([type |-> JStr("integer"), minimum |-> JNum(0),
          maximum |-> JNum(100)])

ConstNode == JObj([type |-> JStr("string"), const |-> JStr("active")])

EnumDefaultNode ==
    JObj([type |-> JStr("string"),
          enum |-> JArr(<<JStr("alpha"), JStr("beta"), JStr("gamma")>>),
          default |-> JStr("beta")])

PatternNode == JObj([type |-> JStr("string"), pattern |-> JStr("^[A-Z]+")])

ConstrainedNodes ==
    {MinMaxNode, ConstNode, EnumDefaultNode, PatternNode}
    \cup {WithType(OneKeyword(keyword), JStr("integer")) :
             keyword \in NumberKeywords}
    \cup {OneKeyword(keyword) : keyword \in {"not", "if", "then", "else"}}
    \cup {JStr("string"), JBool(TRUE)}

(* A constrained node: alone, under one position, and inside 1..MaxNest    *)
(* typed object levels.                                                    *)
ConstrainedSchema(sch) ==
    \E node \in ConstrainedNodes :
        \/ sch = node
        \/ \E keyword \in Positions : sch = Under(keyword, "c", node)
        \/ \E n \in 1..MaxNest : sch = Nest(n, node)

InitP7 ==
    /\ ConstrainedSchema(schema)
    /\ target \in Targets
    /\ mode \in Modes
    /\ enum_default_first \in BOOLEAN
    /\ pc = "call"
    /\ checked = JNull
    /\ errors = <<>>
    /\ transforms = <<>>
    /\ max_depth_observed = 0
    /\ stack = <<>>
    /\ result = NoResult
    /\ previous = NoResult

NextP7 == PruneConstraints

SpecP7 == InitP7 /\ [][NextP7]_vars

----------------------------------------------------------------------------
(* Vocabulary of the properties *)

(* The call has returned, under (OpenaiStrict, Strict) / another config. *)
Strict == target = "OpenaiStrict" /\ mode = "Strict"

DoneStrict == pc = "done" /\ Strict

DoneOther == pc = "done" /\ ~Strict

(* The root `type` of sch is the string "object". *)
RootTypeIsObject(sch) ==
    /\ sch.k = "Object"
    /\ "type" \in DOMAIN sch.o
    /\ sch.o["type"].k = "String"
    /\ sch.o["type"].s = "object"

(* {type:"object", properties:{result:sch}, required:["result"],           *)
(*  additionalProperties:false}                                            *)
WrapperOf(sch) ==
    [k |-> "Object",
     o |-> ("type" :> [k |-> "String", s |-> "object"])
           @@ ("properties" :> [k |-> "Object", o |-> ("result" :> sch)])
           @@ ("required" :>
                  [k |-> "Array", a |-> <<[k |-> "String", s |-> "result"]>>])
           @@ ("additionalProperties" :> [k |-> "Bool", b |-> FALSE])]

(* The entries of a list that are of one kind. *)
OfKind(list, kind) == SelectSeq(list, LAMBDA e : e.kind = kind)

(* The entries of a list that are of one kind and at one path. *)
AtPath(list, kind, path) ==
    SelectSeq(list, LAMBDA e : e.kind = kind /\ e.path = path)

----------------------------------------------------------------------------
(* C1: under (OpenaiStrict, Strict), an input whose root `type` is not the *)
(* string "object" (absent, not a string, or the root is not an object)    *)
(* is returned as exactly the wrapper around the verbatim input, with      *)
(* exactly one RootObjectWrapper{path "#", wrapper_key "result"} transform *)
(* and exactly one RootTypeIncompatible advisory.                          *)
C1_RootWrapped ==
    (DoneStrict /\ ~RootTypeIsObject(schema)) =>
        /\ result.outcome = "returned"
        /\ result.schema = WrapperOf(schema)
        /\ result.transforms =
              <<[kind |-> "RootObjectWrapper", path |-> <<"#">>,
                 wrapper_key |-> "result"]>>
        /\ Len(OfKind(result.errors, "RootTypeIncompatible")) = 1

(* A root whose `type` is an array, not a string, has been wrapped. *)
C1_Witness ==
    /\ DoneStrict
    /\ schema.k = "Object"
    /\ "type" \in DOMAIN schema.o
    /\ schema.o["type"].k = "Array"
    /\ Len(result.transforms) = 1

(* C2: under (OpenaiStrict, Strict) the returned schema is a JSON object   *)
(* whose root `type` is "object", for every input.                         *)
C2_RootIsObject ==
    DoneStrict => (result.outcome = "returned" /\ RootTypeIsObject(result.schema))

(* A root that is not even an object (a boolean schema) came back as an    *)
(* object of type "object".                                                *)
C2_Witness ==
    /\ DoneStrict
    /\ schema.k = "Bool"
    /\ RootTypeIsObject(result.schema)

(* C3: under every configuration other than (OpenaiStrict, Strict) the     *)
(* call is a passthrough: the returned schema is the input and both lists  *)
(* are empty.                                                              *)
C3_Passthrough ==
    DoneOther =>
        /\ result.outcome = "returned"
        /\ result.schema = schema
        /\ result.transforms = <<>>
        /\ result.errors = <<>>

(* OpenaiStrict with Lenient passed through a root of type "array". *)
C3_Witness ==
    /\ pc = "done"
    /\ target = "OpenaiStrict"
    /\ mode = "Lenient"
    /\ schema.k = "Object"
    /\ "type" \in DOMAIN schema.o
    /\ schema.o["type"] = [k |-> "String", s |-> "array"]
    /\ result.schema = schema

(* C4: under (OpenaiStrict, Strict), an input whose root `type` is the     *)
(* string "object" is returned unchanged, with no transform and no         *)
(* RootTypeIncompatible advisory.                                          *)
C4_ObjectRootUnchanged ==
    (DoneStrict /\ RootTypeIsObject(schema)) =>
        /\ result.outcome = "returned"
        /\ result.schema = schema
        /\ result.transforms = <<>>
        /\ Len(OfKind(result.errors, "RootTypeIncompatible")) = 0

(* An object root came back unchanged although the audit found something. *)
C4_Witness ==
    /\ DoneStrict
    /\ RootTypeIsObject(schema)
    /\ result.schema = schema
    /\ result.errors # <<>>

----------------------------------------------------------------------------
(* The nodes of a schema, as the properties speak of them *)

(* The child positions the traversal follows from an object node. *)
MapPositions == {"properties", "$defs", "definitions"}

ArrayPositions == {"prefixItems", "anyOf", "oneOf", "allOf"}

ChildrenOf(node, path) ==
    UNION {{[node |-> node.o[kw].o[m], path |-> path \o <<kw, m>>] :
               m \in DOMAIN node.o[kw].o} :
             kw \in {q \in MapPositions \cap DOMAIN node.o :
                        node.o[q].k = "Object"}}
    \cup
    UNION {{[node |-> node.o[kw].a[i],
             path |-> path \o <<kw, IndexString[i]>>] :
               i \in 1..Len(node.o[kw].a)} :
             kw \in {q \in ArrayPositions \cap DOMAIN node.o :
                        node.o[q].k = "Array"}}
    \cup
    {[node |-> node.o[kw], path |-> path \o <<kw>>] :
        kw \in {q \in {"items"} \cap DOMAIN node.o :
                   node.o[q].k \in {"Object", "Bool"}}}
    \cup
    {[node |-> node.o[kw], path |-> path \o <<kw>>] :
        kw \in {q \in {"additionalProperties"} \cap DOMAIN node.o :
                   node.o[q].k = "Object"}}

(* The nodes one position below the object nodes of a level. *)
Below(level) ==
    UNION {{[node |-> c.node, path |-> c.path, depth |-> e.depth + 1] :
               c \in ChildrenOf(e.node, e.path)} :
             e \in {x \in level : x.node.k = "Object"}}

(* A sweep over the levels of a document: the nodes found so far and the   *)
(* level to look below next.                                               *)
Step(sweep) ==
    [found |-> sweep.found \cup sweep.level, level |-> Below(sweep.level)]

(* n steps of the sweep, split in halves; a sweep with no level left is    *)
(* over.                                                                   *)
RECURSIVE Sweep(_, _)
Sweep(n, sweep) ==
    IF n = 0 \/ sweep.level = {} THEN sweep
    ELSE IF n = 1 THEN Step(sweep)
    ELSE Sweep(n - (n \div 2), Sweep(n \div 2, sweep))

(* More levels than any document here has. *)
MaxLevels == 2 * HARD_RECURSION_LIMIT

(* Every node under these positions, with its path and its depth (the     *)
(* root at depth 0, each child position one deeper).                       *)
NodesOf(node, path, depth) ==
    Sweep(MaxLevels,
          [found |-> {},
           level |-> {[node |-> node, path |-> path, depth |-> depth]}]).found

(* The nodes of the returned schema. *)
Nodes == NodesOf(result.schema, <<"#">>, 0)

(* The visited nodes: those the traversal reaches within its recursion    *)
(* bound.                                                                  *)
Visited == {e \in Nodes : e.depth <= 100}

(* The schema nodes among them: objects and boolean schemas. *)
VisitedSchemas == {e \in Visited : e.node.k \in {"Object", "Bool"}}

VisitedObjects == {e \in Visited : e.node.k = "Object"}

(* The largest depth of a non-empty set of nodes. *)
MaxDepthOf(nodes) ==
    CHOOSE d \in {e.depth : e \in nodes} : \A e \in nodes : e.depth <= d

(* The DepthBudgetExceeded entries of the errors list tell depth d with    *)
(* limit 5: exactly one entry when d > 5, none otherwise.                  *)
DepthReported(d) ==
    LET entries == OfKind(result.errors, "DepthBudgetExceeded")
    IN IF d > 5
       THEN /\ Len(entries) = 1
            /\ entries[1].actual_depth = d
            /\ entries[1].max_depth = 5
       ELSE Len(entries) = 0

(* C5 as stated: the depth is the maximum over the visited schema nodes. *)
C5_Original == DoneStrict => DepthReported(MaxDepthOf(VisitedSchemas))

(* C5, amended: under (OpenaiStrict, Strict) the errors list holds exactly *)
(* one DepthBudgetExceeded when the maximum depth over the visited object  *)
(* nodes (root at depth 0, each child position one deeper; a boolean       *)
(* schema does not count) exceeds 5, and none otherwise; the entry has     *)
(* actual_depth equal to that maximum and max_depth 5.                     *)
C5_DepthBudget == DoneStrict => DepthReported(MaxDepthOf(VisitedObjects))

(* The object nested 7 levels: one entry, actual_depth 7. *)
C5_Witness ==
    /\ DoneStrict
    /\ RootTypeIsObject(schema)
    /\ MaxDepthOf(VisitedObjects) = 7
    /\ Len(OfKind(result.errors, "DepthBudgetExceeded")) = 1
    /\ result.errors[Len(result.errors)].actual_depth = 7

(* The JSON type-name of a value, and the ascending order of the names. *)
TypeNameOf ==
    [Null |-> "null", Bool |-> "boolean", Number |-> "number",
     String |-> "string", Array |-> "array", Object |-> "object"]

TypeRank ==
    [array |-> 1, boolean |-> 2, null |-> 3, number |-> 4, object |-> 5,
     string |-> 6]

TypesOf(values) == {TypeNameOf[values[i].k] : i \in 1..Len(values)}

(* The visited nodes that carry an `enum` array. *)
EnumNodes ==
    {e \in VisitedObjects :
        "enum" \in DOMAIN e.node.o /\ e.node.o["enum"].k = "Array"}

(* A list of type-names holds exactly the names of a set, ascending. *)
SortedNames(list, names) ==
    /\ {list[i] : i \in 1..Len(list)} = names
    /\ \A i, j \in 1..Len(list) :
          i < j => TypeRank[list[i]] < TypeRank[list[j]]

(* C6: under (OpenaiStrict, Strict), for every visited node carrying an    *)
(* `enum` array there is exactly one MixedEnumTypes advisory at the node's *)
(* path when its values have more than one JSON type-name, and none when   *)
(* they share one type-name or the array is empty; types_found lists the   *)
(* distinct type-names once each, sorted.                                  *)
C6_EnumHomogeneity ==
    DoneStrict =>
        \A e \in EnumNodes :
            LET types == TypesOf(e.node.o["enum"].a)
                entries == AtPath(result.errors, "MixedEnumTypes", e.path)
            IN IF Cardinality(types) > 1
               THEN /\ Len(entries) = 1
                    /\ SortedNames(entries[1].types_found, types)
               ELSE Len(entries) = 0

(* The enum ["a", null] was reported as <<"null", "string">>. *)
C6_Witness ==
    /\ DoneStrict
    /\ \E e \in EnumNodes :
          /\ e.node.o["enum"].a =
                <<[k |-> "String", s |-> "a"], [k |-> "Null"]>>
          /\ \E i \in 1..Len(result.errors) :
                /\ result.errors[i].kind = "MixedEnumTypes"
                /\ result.errors[i].path = e.path
                /\ result.errors[i].types_found = <<"null", "string">>

(* The input {properties:{c:{enum:["a", 1]}}} *)
C7Input ==
    [k |-> "Object",
     o |-> ("properties" :>
              [k |-> "Object",
               o |-> ("c" :>
                        [k |-> "Object",
                         o |-> ("enum" :>
                                  [k |-> "Array",
                                   a |-> <<[k |-> "String", s |-> "a"],
                                           [k |-> "Number", n |-> 1]>>])])])]

(* The errors list holds exactly one MixedEnumTypes, with types_found      *)
(* ["number", "string"], at path.                                          *)
OneMixedEnumAt(path) ==
    LET entries == OfKind(result.errors, "MixedEnumTypes")
    IN /\ Len(entries) = 1
       /\ entries[1].types_found = <<"number", "string">>
       /\ entries[1].path = path

(* C7 as stated: the advisory is at #/properties/c. *)
C7_Original ==
    (DoneStrict /\ schema = C7Input) =>
        OneMixedEnumAt(<<"#", "properties", "c">>)

(* C7, amended: under (OpenaiStrict, Strict), for the input                *)
(* {properties:{c:{enum:["a", 1]}}} (root without `type`) the result holds *)
(* exactly one MixedEnumTypes advisory, with types_found                   *)
(* ["number","string"] and path #/properties/result/properties/c (the root *)
(* has been wrapped).                                                      *)
C7_MixedEnumScenario ==
    (DoneStrict /\ schema = C7Input) =>
        OneMixedEnumAt(<<"#", "properties", "result", "properties", "c">>)

(* The scenario's input has been audited and the advisory is there. *)
C7_Witness ==
    /\ DoneStrict
    /\ schema = C7Input
    /\ Len(OfKind(result.errors, "MixedEnumTypes")) = 1

(* The content keywords. *)
ContentKeywords ==
    {"type", "properties", "items", "prefixItems", "enum", "const", "anyOf",
     "oneOf", "allOf", "$ref", "not", "if", "then", "else", "pattern",
     "minimum", "maximum", "minLength", "maxLength", "minItems", "maxItems",
     "format"}

(* C8: under (OpenaiStrict, Strict), for every visited object node at a    *)
(* path other than "#" there is an UnconstrainedSchema advisory at that    *)
(* path (exactly one) if and only if none of the node's keys is a content  *)
(* keyword; the node at path "#" is never flagged.                         *)
C8_Unconstrained ==
    DoneStrict =>
        /\ \A e \in VisitedObjects :
              e.path # <<"#">> =>
                 Len(AtPath(result.errors, "UnconstrainedSchema", e.path)) =
                    IF DOMAIN e.node.o \cap ContentKeywords = {}
                    THEN 1 ELSE 0
        /\ Len(AtPath(result.errors, "UnconstrainedSchema", <<"#">>)) = 0

(* A node holding exactly additionalProperties, required, description,     *)
(* title and $schema has been flagged.                                     *)
C8_Witness ==
    /\ DoneStrict
    /\ \E e \in VisitedObjects :
          /\ DOMAIN e.node.o =
                {"additionalProperties", "required", "description", "title",
                 "$schema"}
          /\ Len(AtPath(result.errors, "UnconstrainedSchema", e.path)) = 1

(* C9: whatever the input and the configuration, the call goes on until   *)
(* it returns, and it returns a result holding a schema (the input or its  *)
(* wrapper) and the accumulated errors; no finding makes it a failure.     *)
C9_NeverAborts ==
    /\ pc # "done" => ENABLED Next
    /\ pc = "done" =>
          /\ result.outcome = "returned"
          /\ {"schema", "transforms", "errors"} \subseteq DOMAIN result
          /\ \/ result.schema = schema
             \/ result.schema = WrapperOf(schema)

(* A call that found all four kinds of advisory has returned its schema. *)
C9_Witness ==
    /\ pc = "done"
    /\ result.outcome = "returned"
    /\ \A kind \in {"RootTypeIncompatible", "DepthBudgetExceeded",
                    "MixedEnumTypes", "UnconstrainedSchema"} :
          Len(OfKind(result.errors, kind)) > 0

(* A node's finding is in the errors list: a mixed-type enum has its       *)
(* MixedEnumTypes, an unconstrained sub-schema (an object without content  *)
(* keyword, or a boolean) its UnconstrainedSchema.                         *)
MixedEnumNode(e) ==
    /\ e.node.k = "Object"
    /\ "enum" \in DOMAIN e.node.o
    /\ e.node.o["enum"].k = "Array"
    /\ Cardinality(TypesOf(e.node.o["enum"].a)) > 1

UnconstrainedNode(e) ==
    \/ e.node.k = "Bool"
    \/ e.node.k = "Object" /\ DOMAIN e.node.o \cap ContentKeywords = {}

FindingReported(e) ==
    /\ MixedEnumNode(e) =>
          Len(AtPath(result.errors, "MixedEnumTypes", e.path)) = 1
    /\ UnconstrainedNode(e) =>
          Len(AtPath(result.errors, "UnconstrainedSchema", e.path)) = 1

(* C10 as stated: every node deeper than 5 is traversed and reported. *)
C10_Original ==
    DoneStrict => \A e \in Nodes : e.depth > 5 => FindingReported(e)

(* C10, amended: under (OpenaiStrict, Strict), exceeding the depth budget  *)
(* does not stop the audit: every node nested deeper than 5 and no deeper  *)
(* than HARD_RECURSION_LIMIT (100) is still traversed, so a mixed-type     *)
(* enum or an unconstrained sub-schema there still yields its advisory.    *)
C10_BudgetDoesNotStop ==
    DoneStrict => \A e \in Visited : e.depth > 5 => FindingReported(e)

(* A mixed-type enum at depth 7 has its advisory, next to the budget's. *)
C10_Witness ==
    /\ DoneStrict
    /\ Len(OfKind(result.errors, "DepthBudgetExceeded")) = 1
    /\ \E e \in Visited :
          /\ e.depth = 7
          /\ MixedEnumNode(e)
          /\ Len(AtPath(result.errors, "MixedEnumTypes", e.path)) = 1

----------------------------------------------------------------------------
(* C11: a second call of check_provider_compat, on the schema the first    *)
(* call returned and with the same options, returns that schema unchanged  *)
(* and an empty transforms list: the second pass rewrites nothing.         *)
C11_Idempotent ==
    (pc = "done" /\ previous # NoResult) =>
        /\ result.outcome = "returned"
        /\ result.schema = previous.schema
        /\ result.transforms = <<>>

(* Under (OpenaiStrict, Strict) the first call wrapped the root and the    *)
(* second call gave the wrapper back.                                      *)
C11_Witness ==
    /\ pc = "done"
    /\ Strict
    /\ previous # NoResult
    /\ Len(previous.transforms) = 1
    /\ result.schema = previous.schema

----------------------------------------------------------------------------
(* Vocabulary of the properties of prune_constraints *)

(* The capability matrix: the keywords it marks Drop and Supported. *)
NumericKeywords ==
    {"minimum", "maximum", "exclusiveMinimum", "exclusiveMaximum",
     "multipleOf", "minLength", "maxLength", "minItems", "maxItems",
     "uniqueItems"}

StructureKeywords ==
    {"type", "properties", "required", "items", "enum", "anyOf", "oneOf",
     "allOf"}

DropKeywords(tgt) ==
    {"not", "if", "then", "else", "default"}
    \cup (IF tgt = "Gemini" THEN {"pattern"}
          ELSE NumericKeywords \cup {"format"})
    \cup (IF tgt = "Claude" THEN {"pattern"} ELSE {})

SupportedKeywords(tgt) ==
    StructureKeywords
    \cup (IF tgt = "Gemini" THEN NumericKeywords \cup {"const"} ELSE {"$ref"})
    \cup (IF tgt = "OpenaiStrict" THEN {"pattern"} ELSE {})

(* The call of prune_constraints has ended / has returned a result. *)
Ended == pc = "done"

Returned == Ended /\ result.outcome = "returned"

(* The object nodes of the input, and the node of the output at a path. *)
InputObjects ==
    {e \in NodesOf(schema, <<"#">>, 0) : e.node.k = "Object"}

OutputAt(path) ==
    LET found == {e \in NodesOf(result.schema, <<"#">>, 0) : e.path = path}
    IN IF found = {} THEN JNull ELSE (CHOOSE e \in found : TRUE).node

(* The DroppedConstraint entries for one keyword of the node at a path. *)
DroppedAt(path, keyword) ==
    SelectSeq(result.dropped_constraints,
              LAMBDA d : d.path = path /\ d.constraint = keyword)

(* C12 (as stated; the code fails it): prune_constraints returns, and at   *)
(* every node of the schema each keyword the matrix marks Drop for the     *)
(* target is absent from the output and has exactly one DroppedConstraint  *)
(* with its original value, each keyword marked Supported is kept with its *)
(* value and has no entry, and the keyword of every DroppedConstraint is   *)
(* absent from the output at its path.                                     *)
C12_Original ==
    (Ended /\ \E e \in InputObjects :
                 DOMAIN e.node.o \cap DropKeywords(target) # {}) =>
        /\ Returned
        /\ \A e \in InputObjects :
              \A keyword \in DOMAIN e.node.o :
                 LET out == OutputAt(e.path)
                     entries == DroppedAt(e.path, keyword)
                 IN /\ out.k = "Object"
                    /\ keyword \in DropKeywords(target) =>
                          /\ keyword \notin DOMAIN out.o
                          /\ Len(entries) = 1
                          /\ entries[1].value = e.node.o[keyword]
                    /\ keyword \in SupportedKeywords(target) =>
                          /\ keyword \in DOMAIN out.o
                          /\ out.o[keyword] = e.node.o[keyword]
                          /\ Len(entries) = 0
        /\ \A i \in 1..Len(result.dropped_constraints) :
              LET d == result.dropped_constraints[i]
                  out == OutputAt(d.path)
              IN out.k = "Object" => d.constraint \notin DOMAIN out.o

(* C13 (as stated; the code fails it): prune_constraints returns, and for  *)
(* every node carrying `const` with value v the output node has            *)
(* `enum: [v]` and no `const` under OpenaiStrict and Claude, and keeps     *)
(* `const: v` under Gemini.                                                *)
C13_Original ==
    (Ended /\ \E e \in InputObjects : "const" \in DOMAIN e.node.o) =>
        /\ Returned
        /\ \A e \in InputObjects :
              "const" \in DOMAIN e.node.o =>
                 LET out == OutputAt(e.path)
                     v == e.node.o["const"]
                 IN /\ out.k = "Object"
                    /\ IF target = "Gemini"
                       THEN /\ "const" \in DOMAIN out.o
                            /\ out.o["const"] = v
                       ELSE /\ "const" \notin DOMAIN out.o
                            /\ "enum" \in DOMAIN out.o
                            /\ out.o["enum"] = [k |-> "Array", a |-> <<v>>]

(* The values of an enum with the default's value moved to the front, the  *)
(* others in their order.                                                  *)
DefaultFirst(values, default) ==
    IF \E i \in 1..Len(values) : values[i] = default
    THEN <<default>> \o SelectSeq(values, LAMBDA v : v # default)
    ELSE values

(* C14 (as stated; the code fails it): with enum_default_first,            *)
(* prune_constraints returns, and for every node where `enum` and          *)
(* `default` coexist the output enum has the default's value first and the *)
(* others in their order, `default` is gone, and a DroppedConstraint       *)
(* "default" holds the original default.                                   *)
C14_Original ==
    (/\ Ended
     /\ enum_default_first
     /\ \E e \in InputObjects :
           {"enum", "default"} \subseteq DOMAIN e.node.o) =>
        /\ Returned
        /\ \A e \in InputObjects :
              ({"enum", "default"} \subseteq DOMAIN e.node.o
               /\ e.node.o["enum"].k = "Array") =>
                 LET out == OutputAt(e.path)
                     entries == DroppedAt(e.path, "default")
                 IN /\ out.k = "Object"
                    /\ "enum" \in DOMAIN out.o
                    /\ out.o["enum"] =
                          [k |-> "Array",
                           a |-> DefaultFirst(e.node.o["enum"].a,
                                              e.node.o["default"])]
                    /\ "default" \notin DOMAIN out.o
                    /\ Len(entries) = 1
                    /\ entries[1].value = e.node.o["default"]

(* C15 (as stated; the code fails it): every invocation on a schema ends   *)
(* either in success, with an output schema that is a JSON object or a     *)
(* boolean, or in a structured ConvertError; never in a panic.             *)
C15_Original ==
    (Ended /\ schema.k \in {"Object", "Bool"}) =>
        /\ result.outcome \in {"returned", "error"}
        /\ result.outcome = "returned" =>
              result.schema.k \in {"Object", "Bool"}

----------------------------------------------------------------------------
(* Vocabulary of the properties of the traversal's steps *)

(* The child positions of the shared traversal skeleton, and the positions *)
(* visit has a loop for, each in its order.                                *)
SkeletonOrder ==
    <<"properties", "patternProperties", "additionalProperties", "items",
      "prefixItems", "contains", "anyOf", "oneOf", "allOf", "not", "if",
      "then", "else", "$defs", "definitions", "dependentSchemas",
      "propertyNames">>

VisitOrder ==
    <<"properties", "items", "prefixItems", "additionalProperties", "anyOf",
      "oneOf", "allOf", "$defs", "definitions">>

MapPositionsAll ==
    {"properties", "patternProperties", "$defs", "definitions",
     "dependentSchemas"}

(* The children of a node under one position, in order: the members of a   *)
(* map by ascending name, the elements of an array by index, or the one    *)
(* schema (an object or a boolean; for additionalProperties an object).    *)
ChildrenAt(e, position) ==
    IF position \notin DOMAIN e.node.o THEN <<>>
    ELSE LET v == e.node.o[position]
             names == IF v.k = "Object" THEN MapKeys(v.o) ELSE <<>>
         IN CASE position \in MapPositionsAll ->
                    [i \in 1..Len(names) |->
                        [node |-> v.o[names[i]],
                         path |-> e.path \o <<position, names[i]>>,
                         depth |-> e.depth + 1]]
              [] position \in ArrayPositions ->
                    IF v.k # "Array" THEN <<>>
                    ELSE [i \in 1..Len(v.a) |->
                            [node |-> v.a[i],
                             path |-> e.path \o <<position, IndexString[i]>>,
                             depth |-> e.depth + 1]]
              [] OTHER ->
                    IF \/ v.k = "Object"
                       \/ v.k = "Bool" /\ position # "additionalProperties"
                    THEN <<[node |-> v, path |-> e.path \o <<position>>,
                            depth |-> e.depth + 1]>>
                    ELSE <<>>

(* The children of a node under a list of positions, in the list's order. *)
RECURSIVE ChildrenIn(_, _)
ChildrenIn(e, positions) ==
    IF positions = <<>> THEN <<>>
    ELSE ChildrenAt(e, Head(positions)) \o ChildrenIn(e, Tail(positions))

(* A step is a call of visit on an object within the recursion bound; the  *)
(* node it is called on, and the calls it makes, as nodes.                 *)
VisitsObject ==
    /\ pc = "visit"
    /\ stack # <<>>
    /\ Head(stack).schema.k = "Object"
    /\ Head(stack).depth <= 100

VisitedNow ==
    [node |-> Head(stack).schema, path |-> Head(stack).path,
     depth |-> Head(stack).depth]

CallsMade ==
    [i \in 1..(Len(stack') - Len(stack) + 1) |->
        [node |-> stack'[i].schema, path |-> stack'[i].path,
         depth |-> stack'[i].depth]]

(* The findings of the children of the visited nodes under a list of       *)
(* positions are reported.                                                 *)
ChildFindingsReported(positions) ==
    \A e \in VisitedObjects :
        LET children == ChildrenIn(e, positions)
        IN \A i \in 1..Len(children) :
              children[i].depth <= 100 => FindingReported(children[i])

(* C16 as stated: the calls visit makes from an object node are the        *)
(* children under the skeleton's positions, in the skeleton's order, and   *)
(* the findings under those positions are reported.                        *)
C16_Original ==
    /\ [][VisitsObject =>
             CallsMade = ChildrenIn(VisitedNow, SkeletonOrder)]_vars
    /\ [](DoneStrict => ChildFindingsReported(SkeletonOrder))

(* C16, amended: the calls visit makes from an object node are exactly the *)
(* children under properties/*, items, prefixItems/*, additionalProperties *)
(* (if an object), anyOf/*, oneOf/*, allOf/*, $defs/* and definitions/*,   *)
(* in this order, so a mixed-type enum or an unconstrained sub-schema      *)
(* under any of these positions is visited and reported; a child under     *)
(* patternProperties, contains, not, if, then, else, dependentSchemas or   *)
(* propertyNames is not visited.                                           *)
C16_Positions ==
    /\ [][VisitsObject => CallsMade = ChildrenIn(VisitedNow, VisitOrder)]_vars
    /\ [](DoneStrict => ChildFindingsReported(VisitOrder))

(* A node with a mixed-type enum under every position has been audited:    *)
(* the one under definitions is reported, the one under contains is not.   *)
C16_Witness ==
    /\ DoneStrict
    /\ schema = Crowded(MixedEnum)
    /\ Len(AtPath(result.errors, "MixedEnumTypes",
                  <<"#", "definitions", "c">>)) = 1
    /\ Len(AtPath(result.errors, "MixedEnumTypes", <<"#", "contains">>)) = 0

----------------------------------------------------------------------------
(* The returned schema nests deeper than the recursion bound. *)
TooDeep == \E e \in Nodes : e.depth > 100

(* The entries of the errors list at a path, of any kind. *)
AnyAt(list, path) ==
    SelectSeq(list, LAMBDA e : "path" \in DOMAIN e /\ e.path = path)

(* C17 as stated: a schema that nests deeper than HARD_RECURSION_LIMIT     *)
(* makes the call fail, and no schema is returned.                         *)
C17_Original ==
    (DoneStrict /\ TooDeep) =>
        /\ result.outcome = "failed"
        /\ "schema" \notin DOMAIN result

(* C17, amended: exceeding the hard recursion bound does not fail the      *)
(* invocation: when a schema nests deeper than HARD_RECURSION_LIMIT (100), *)
(* the call returns the schema and its errors as usual, and the part       *)
(* deeper than 100 is skipped silently: no advisory is at the path of a    *)
(* node deeper than 100 and the depth reported is 100.                     *)
C17_DeepPartSkipped ==
    (DoneStrict /\ TooDeep) =>
        /\ result.outcome = "returned"
        /\ result.schema \in {schema, WrapperOf(schema)}
        /\ \A e \in Nodes :
              e.depth > 100 => Len(AnyAt(result.errors, e.path)) = 0
        /\ DepthReported(100)

(* A mixed-type enum at depth 101 went unreported and the call returned. *)
C17_Witness ==
    /\ DoneStrict
    /\ result.outcome = "returned"
    /\ \E e \in Nodes :
          /\ e.depth = 101
          /\ MixedEnumNode(e)
          /\ Len(AnyAt(result.errors, e.path)) = 0

----------------------------------------------------------------------------
(* Vocabulary of the order of the errors list *)

(* The rank of a path segment among its siblings: a position by the order  *)
(* of the loops of visit, a member name by ascending name, an array index  *)
(* by its number.                                                          *)
RankIn(list, segment) ==
    CHOOSE i \in 1..Len(list) : list[i] = segment

Rank(segment) ==
    IF \E i \in 1..Len(VisitOrder) : VisitOrder[i] = segment
    THEN RankIn(VisitOrder, segment)
    ELSE IF \E i \in 1..Len(IndexString) : IndexString[i] = segment
    THEN RankIn(IndexString, segment)
    ELSE RankIn(KeyOrder, segment)

(* The number of leading segments two paths share. *)
Shared(p, q) ==
    LET short == IF Len(p) <= Len(q) THEN Len(p) ELSE Len(q)
        same == {n \in 0..short : \A i \in 1..n : p[i] = q[i]}
    IN CHOOSE n \in same : \A m \in same : m <= n

(* The node at p is visited before the node at q: it is an ancestor of it, *)
(* or the two branch off where p's branch is the earlier sibling.          *)
VisitedBefore(p, q) ==
    LET n == Shared(p, q)
    IN /\ p # q
       /\ \/ n = Len(p)
          \/ n < Len(p) /\ n < Len(q) /\ Rank(p[n + 1]) < Rank(q[n + 1])

Finding(e) == e.kind \in {"MixedEnumTypes", "UnconstrainedSchema"}

(* C18: in the errors list returned under (OpenaiStrict, Strict),          *)
(* RootTypeIncompatible, if present, is the first entry,                   *)
(* DepthBudgetExceeded, if present, is the last entry, and the             *)
(* MixedEnumTypes and UnconstrainedSchema entries in between are in visit  *)
(* order: a node's advisory before those of its descendants and of the     *)
(* siblings visited after it.                                              *)
C18_ErrorOrder ==
    DoneStrict =>
        LET list == result.errors
        IN /\ \A i \in 1..Len(list) :
                 /\ list[i].kind = "RootTypeIncompatible" => i = 1
                 /\ list[i].kind = "DepthBudgetExceeded" => i = Len(list)
           /\ \A i, j \in 1..Len(list) :
                 (i < j /\ Finding(list[i]) /\ Finding(list[j])) =>
                    VisitedBefore(list[i].path, list[j].path)

(* A list with RootTypeIncompatible first, DepthBudgetExceeded last and    *)
(* the findings of a node and of several of its children in between.       *)
C18_Witness ==
    /\ DoneStrict
    /\ Len(result.errors) >= 5
    /\ result.errors[1].kind = "RootTypeIncompatible"
    /\ result.errors[Len(result.errors)].kind = "DepthBudgetExceeded"
    /\ \A i \in 2..(Len(result.errors) - 1) : Finding(result.errors[i])

----------------------------------------------------------------------------
(* Vocabulary of the wrapped root *)

(* The nodes of the input, the input's root at depth 0. *)
InputNodes == NodesOf(schema, <<"#">>, 0)

(* Where the wrapper puts the original root. *)
ResultPath == <<"#", "properties", "result">>

(* The path in the wrapped schema of the input node at a path. *)
Relocated(path) == ResultPath \o Tail(path)

UnderResult(path) ==
    /\ Len(path) >= Len(ResultPath)
    /\ SubSeq(path, 1, Len(ResultPath)) = ResultPath

RootWrapped == Strict /\ ~RootTypeIsObject(schema)

(* The largest depth of a set of nodes, counted one deeper; 0 for no node. *)
OneDeeper(nodes) == IF nodes = {} THEN 0 ELSE 1 + MaxDepthOf(nodes)

(* What does not depend on the kind of the deepest node: the checks run on *)
(* the wrapper, each call of visit is on the wrapper's root or on an input *)
(* node at its relocated path and one deeper, every finding is under       *)
(* `#/properties/result`, and a root that is a boolean or has no content   *)
(* keyword is flagged there.                                               *)
WrappedRootVisited ==
    /\ (RootWrapped /\ pc = "visit") =>
          /\ checked = WrapperOf(schema)
          /\ \A i \in 1..Len(stack) :
                \/ stack[i] = VisitCall(WrapperOf(schema), <<"#">>, 0)
                \/ \E e \in InputNodes :
                      stack[i] =
                         VisitCall(e.node, Relocated(e.path), e.depth + 1)
    /\ (RootWrapped /\ pc = "done") =>
          /\ result.schema = WrapperOf(schema)
          /\ \A i \in 1..Len(result.errors) :
                Finding(result.errors[i]) => UnderResult(result.errors[i].path)
          /\ UnconstrainedNode([node |-> schema]) =>
                Len(AtPath(result.errors, "UnconstrainedSchema", ResultPath))
                   = 1

(* C19 as stated: the reported depth is one more than the depth of the     *)
(* deepest schema node of the input.                                       *)
C19_Original ==
    /\ WrappedRootVisited
    /\ (RootWrapped /\ pc = "done") =>
          DepthReported(OneDeeper({e \in InputNodes :
                                     e.node.k \in {"Object", "Bool"}}))

(* C19, amended: when the root is wrapped under (OpenaiStrict, Strict),    *)
(* checks 2-4 run on the wrapper; the original root is visited at          *)
(* `#/properties/result` and depth 1, every input node is visited at its   *)
(* path under `#/properties/result` and one deeper than in the input,      *)
(* every finding is under that prefix, a root that is a boolean or has no  *)
(* content keyword is reported as UnconstrainedSchema at                   *)
(* `#/properties/result`, and the reported depth is one more than the      *)
(* depth of the deepest object node of the input within the recursion      *)
(* bound (a boolean does not count).                                       *)
C19_WrappedRoot ==
    /\ WrappedRootVisited
    /\ (RootWrapped /\ pc = "done") =>
          DepthReported(OneDeeper({e \in InputNodes :
                                     /\ e.node.k = "Object"
                                     /\ e.depth + 1 <= HARD_RECURSION_LIMIT}))

(* An input without root type "object" whose deepest node, an object, is   *)
(* at depth 5: actual_depth 6.                                             *)
C19_Witness ==
    /\ DoneStrict
    /\ ~RootTypeIsObject(schema)
    /\ MaxDepthOf(InputNodes) = 5
    /\ \A e \in InputNodes : e.depth = 5 => e.node.k = "Object"
    /\ Len(OfKind(result.errors, "DepthBudgetExceeded")) = 1
    /\ result.errors[Len(result.errors)].actual_depth = 6
    /\ \E i \in 1..Len(result.errors) :
          /\ Finding(result.errors[i])
          /\ UnderResult(result.errors[i].path)

----------------------------------------------------------------------------
(* Boolean schemas *)

BooleanSchemaKind(node) ==
    IF node.b THEN "boolean(true)" ELSE "boolean(false)"

(* The object nodes that carry a boolean `additionalProperties`. *)
BooleanAdditionalProperties ==
    {e \in VisitedObjects :
        /\ "additionalProperties" \in DOMAIN e.node.o
        /\ e.node.o["additionalProperties"].k = "Bool"}

(* C20: under (OpenaiStrict, Strict), a boolean the traversal meets as a   *)
(* child under properties, items, prefixItems, anyOf, oneOf, allOf, $defs  *)
(* or definitions yields exactly one advisory at its path, an              *)
(* UnconstrainedSchema of kind boolean(true) or boolean(false), and does   *)
(* not raise the observed depth, which stays the depth of the deepest      *)
(* object node; a boolean `additionalProperties` is never the subject of a *)
(* call of visit and has no advisory at its path.                          *)
C20_BooleansByPosition ==
    /\ DoneStrict =>
          /\ \A e \in Visited :
                e.node.k = "Bool" =>
                   AnyAt(result.errors, e.path) =
                      <<UnconstrainedSchema(e.path, BooleanSchemaKind(e.node),
                                            target)>>
          /\ \A e \in BooleanAdditionalProperties :
                AnyAt(result.errors, e.path \o <<"additionalProperties">>)
                   = <<>>
          /\ max_depth_observed = MaxDepthOf(VisitedObjects)
    /\ (Strict /\ pc = "visit") =>
          \A i \in 1..Len(stack) :
             stack[i].schema.k = "Bool" =>
                stack[i].path[Len(stack[i].path)] # "additionalProperties"

(* An object with a boolean under every position: eight advisories, one    *)
(* per position the traversal follows for a boolean, none for              *)
(* additionalProperties, and the observed depth still 0.                   *)
C20_Witness ==
    /\ DoneStrict
    /\ schema = Crowded(JBool(TRUE))
    /\ Len(result.errors) = 8
    /\ \A i \in 1..Len(result.errors) :
          result.errors[i].schema_kind = "boolean(true)"
    /\ BooleanAdditionalProperties # {}
    /\ max_depth_observed = 0

====
